---- MODULE Spec2Model ----
(***************************************************************************)
(* Model of the timer core of src/main.py: the TimerState dataclass, the   *)
(* TimerManager collection and the pause/resume handler of TimerWidget.    *)
(*                                                                         *)
(* Strings are sequences of one-character strings.  Wall-clock instants    *)
(* (time.time(), a float) are counted in units of 1/Res second, so that    *)
(* int(now_ts - last_wall_ts) really truncates.  TimerState objects live   *)
(* in a heap indexed by object reference; the dict TimerManager.items is   *)
(* the insertion-ordered sequence of its (key, reference) entries.         *)
(*                                                                         *)
(* Every operation is an operator from the state it is called in (and its  *)
(* arguments) to its outcome: the heap and dict it leaves, the value it    *)
(* returns ("KeyError" when it raises) and the signals it emits, in order. *)
(* The actions apply these operators to the current state.                 *)
(***************************************************************************)
EXTENDS Integers, Sequences, FiniteSets, TLC

\* ---------------------------------------------------------------- bounds
MaxTimers == 2
MaxNow == 4
MaxDur == 2
Res == 2
MaxNamed == 3

\* ---------------------------------------------------------------- inputs
Durations == 1..MaxDur
Steps == 1..(Res + 1)
NameInputs == { <<" ">>, <<"a">>, <<"a", " ">> }
Absent == <<"z">>
\* what the form of _on_add_clicked hands to add: name, age group, gender
BlankForm == <<<<" ">>, "N/A", "Other">>
FormInputs == { BlankForm, <<<<"a">>, "21-30", "Male">> }
Refs == 1..(MaxTimers + MaxNamed)
CasedNames == { <<"a">>, <<"A">>, <<" ">> }

VARIABLES
  heap,       \* reference -> TimerState object
  items,      \* TimerManager.items: sequence of [key, ref], insertion order
  wall,       \* the wall clock, time.time(), in units of 1/Res second
  owed,       \* history: reference -> wall units the timer has spent running
              \*          since its last_wall_ts was last assigned
  mon,        \* history: reference -> progress through pause, tick, resume, tick
  fin,        \* history: reference -> how many tick_all calls found the timer
              \*          just finished, and whether one found it finished already
  life        \* history: reference -> when the timer was created, the instant of
              \*          the latest tick_all since, and whether it was ever toggled

vars == <<heap, items, wall, owed, mon, fin, life>>

\* ---------------------------------------------------------------- strings
Max(a, b) == IF a >= b THEN a ELSE b

RECURSIVE lstrip(_)
lstrip(s) ==
  IF s # <<>> /\ Head(s) = " " THEN lstrip(Tail(s)) ELSE s

RECURSIVE rstrip(_)
rstrip(s) ==
  IF s # <<>> /\ s[Len(s)] = " " THEN rstrip(SubSeq(s, 1, Len(s) - 1)) ELSE s

strip(s) == rstrip(lstrip(s))

Digits == <<"0", "1", "2", "3", "4", "5", "6", "7", "8", "9">>

RECURSIVE str(_)
str(i) ==
  IF i < 10 THEN <<Digits[i + 1]>> ELSE str(i \div 10) \o <<Digits[(i % 10) + 1]>>

\* int(x) of a float difference d/Res: truncation toward zero
int(d) == IF d >= 0 THEN d \div Res ELSE -((-d) \div Res)

\* ---------------------------------------------------------------- dict
Keys(d) == { d[i].key : i \in DOMAIN d }

Values(d) == { d[i].ref : i \in DOMAIN d }

DictGet(d, k) == (CHOOSE i \in DOMAIN d : d[i].key = k)

DictDel(d, k) == SelectSeq(d, LAMBDA e : e.key # k)

DictSet(d, k, r) ==
  IF k \in Keys(d)
  THEN [i \in DOMAIN d |-> IF d[i].key = k THEN [key |-> k, ref |-> r] ELSE d[i]]
  ELSE Append(d, [key |-> k, ref |-> r])

Restrict(h, S) == [r \in S |-> h[r]]

\* ---------------------------------------------------------------- TimerState
\* faulty variant: the floor at zero is missing
clamp_noop(st) == st

clamp(st) == [st EXCEPT !.remaining_sec = Max(0, st.remaining_sec)]

\* faulty variant: strict comparison
is_finished_strict(st) == st.remaining_sec < 0

is_finished(st) == st.remaining_sec <= 0

BASE_DURATION_SEC == 40 * 60

\* the key of THEME whose colour is returned
color_for_remaining(st) ==
  LET r == st.remaining_sec
      first_cut == (2 * BASE_DURATION_SEC) \div 3
      second_cut == BASE_DURATION_SEC \div 3
  IN IF r <= 0 THEN "muted"
     ELSE IF r > first_cut THEN "green"
     ELSE IF r > second_cut THEN "orange"
     ELSE "red"

\* faulty variant: the elapsed seconds are added, not subtracted
tick_wall_adds(st, now_ts) ==
  IF ~st.running
  THEN [st EXCEPT !.last_wall_ts = now_ts]
  ELSE LET elapsed == int(now_ts - st.last_wall_ts) IN
       IF elapsed > 0
       THEN [clamp([st EXCEPT !.remaining_sec = st.remaining_sec + elapsed])
               EXCEPT !.last_wall_ts = now_ts]
       ELSE st

\* faulty variant: the reference instant is not moved after a subtraction
tick_wall_keeps_ref(st, now_ts) ==
  IF ~st.running
  THEN [st EXCEPT !.last_wall_ts = now_ts]
  ELSE LET elapsed == int(now_ts - st.last_wall_ts) IN
       IF elapsed > 0
       THEN clamp([st EXCEPT !.remaining_sec = st.remaining_sec - elapsed])
       ELSE st

\* faulty variant: a paused timer's reference instant is left alone
tick_wall_paused_noref(st, now_ts) ==
  IF ~st.running
  THEN st
  ELSE LET elapsed == int(now_ts - st.last_wall_ts) IN
       IF elapsed > 0
       THEN [clamp([st EXCEPT !.remaining_sec = st.remaining_sec - elapsed])
               EXCEPT !.last_wall_ts = now_ts]
       ELSE st

\* faulty variant: the floor at zero is applied before the subtraction
tick_wall_clamp_first(st, now_ts) ==
  IF ~st.running
  THEN [st EXCEPT !.last_wall_ts = now_ts]
  ELSE LET elapsed == int(now_ts - st.last_wall_ts) IN
       IF elapsed > 0
       THEN [clamp(st) EXCEPT !.remaining_sec = clamp(st).remaining_sec - elapsed,
                              !.last_wall_ts = now_ts]
       ELSE st

\* faulty variant: the reference instant follows every call
tick_wall_always_moves_ref(st, now_ts) ==
  IF ~st.running
  THEN [st EXCEPT !.last_wall_ts = now_ts]
  ELSE LET elapsed == int(now_ts - st.last_wall_ts) IN
       IF elapsed > 0
       THEN [clamp([st EXCEPT !.remaining_sec = st.remaining_sec - elapsed])
               EXCEPT !.last_wall_ts = now_ts]
       ELSE [st EXCEPT !.last_wall_ts = now_ts]

\* faulty variant: a timer that reaches zero is stopped
tick_wall_stops_at_zero(st, now_ts) ==
  IF ~st.running
  THEN [st EXCEPT !.last_wall_ts = now_ts]
  ELSE LET elapsed == int(now_ts - st.last_wall_ts) IN
       IF elapsed > 0
       THEN LET c == clamp([st EXCEPT !.remaining_sec = st.remaining_sec - elapsed]) IN
            [c EXCEPT !.last_wall_ts = now_ts, !.running = c.remaining_sec > 0]
       ELSE st

tick_wall(st, now_ts) ==
  IF ~st.running
  THEN [st EXCEPT !.last_wall_ts = now_ts]
  ELSE LET elapsed == int(now_ts - st.last_wall_ts) IN
       IF elapsed > 0
       THEN [clamp([st EXCEPT !.remaining_sec = st.remaining_sec - elapsed])
               EXCEPT !.last_wall_ts = now_ts]
       ELSE st

\* ---------------------------------------------------------------- TimerManager
Placeholder == <<"T", "i", "m", "e", "r">>

RECURSIVE probe(_, _, _, _)
probe(d, base, candidate, i) ==
  IF candidate \in Keys(d)
  THEN probe(d, base, base \o <<" ">> \o str(i), i + 1)
  ELSE candidate

\* faulty variant: the counter starts at 1
unique_name_from_one(d, base) ==
  LET b == IF strip(base) = <<>> THEN Placeholder ELSE strip(base)
  IN probe(d, b, b, 1)

unique_name(d, base) ==
  LET b == IF strip(base) = <<>> THEN Placeholder ELSE strip(base)
  IN probe(d, b, b, 2)

Outcome(h, d, ret, emitted) ==
  [heap |-> h, items |-> d, ret |-> ret, emitted |-> emitted]

NewRef(h) == CHOOSE r \in Refs \ DOMAIN h : \A q \in Refs \ DOMAIN h : r <= q

\* faulty variant: the name is stored as given, not made unique
add_raw_name(h, d, now, name, duration_sec, age_group, gender) ==
  LET st == [ name |-> name,
              initial_duration_sec |-> duration_sec,
              remaining_sec |-> duration_sec,
              running |-> TRUE,
              last_wall_ts |-> now,
              age_group |-> age_group,
              gender |-> gender ]
      r == NewRef(h)
  IN Outcome([q \in DOMAIN h \cup {r} |-> IF q = r THEN st ELSE h[q]],
             DictSet(d, name, r), "None", <<"structure_changed">>)

add(h, d, now, name, duration_sec, age_group, gender) ==
  LET n == unique_name(d, name)
      st == [ name |-> n,
              initial_duration_sec |-> duration_sec,
              remaining_sec |-> duration_sec,
              running |-> TRUE,
              last_wall_ts |-> now,
              age_group |-> age_group,
              gender |-> gender ]
      r == NewRef(h)
  IN Outcome([q \in DOMAIN h \cup {r} |-> IF q = r THEN st ELSE h[q]],
             DictSet(d, n, r), "None", <<"structure_changed">>)

\* faulty variant: the object's name field is not updated
rename_keeps_name(h, d, old_name, new_name) ==
  LET new == strip(new_name) IN
  IF new = <<>> \/ old_name = new
  THEN Outcome(h, d, "False", <<>>)
  ELSE IF new \in Keys(d)
  THEN Outcome(h, d, "False", <<>>)
  ELSE IF old_name \notin Keys(d)
  THEN Outcome(h, d, "KeyError", <<>>)
  ELSE LET r == d[DictGet(d, old_name)].ref IN
       Outcome(h, DictSet(DictDel(d, old_name), new, r), "True", <<>>)

\* faulty variant: the old key is read, not popped
rename_no_pop(h, d, old_name, new_name) ==
  LET new == strip(new_name) IN
  IF new = <<>> \/ old_name = new
  THEN Outcome(h, d, "False", <<>>)
  ELSE IF new \in Keys(d)
  THEN Outcome(h, d, "False", <<>>)
  ELSE IF old_name \notin Keys(d)
  THEN Outcome(h, d, "KeyError", <<>>)
  ELSE LET r == d[DictGet(d, old_name)].ref IN
       Outcome([h EXCEPT ![r].name = new], DictSet(d, new, r), "True", <<>>)

\* faulty variant: no check that the new name is free
rename_no_taken_check(h, d, old_name, new_name) ==
  LET new == strip(new_name) IN
  IF new = <<>> \/ old_name = new
  THEN Outcome(h, d, "False", <<>>)
  ELSE IF old_name \notin Keys(d)
  THEN Outcome(h, d, "KeyError", <<>>)
  ELSE LET r == d[DictGet(d, old_name)].ref IN
       Outcome([h EXCEPT ![r].name = new],
               DictSet(DictDel(d, old_name), new, r), "True", <<>>)

rename(h, d, old_name, new_name) ==
  LET new == strip(new_name) IN
  IF new = <<>> \/ old_name = new
  THEN Outcome(h, d, "False", <<>>)
  ELSE IF new \in Keys(d)
  THEN Outcome(h, d, "False", <<>>)
  ELSE IF old_name \notin Keys(d)
  THEN Outcome(h, d, "KeyError", <<>>)   \* self.items.pop(old_name) raises
  ELSE LET r == d[DictGet(d, old_name)].ref IN
       Outcome([h EXCEPT ![r].name = new],
               DictSet(DictDel(d, old_name), new, r), "True", <<>>)

\* faulty variant: the key is popped without the membership test
remove_unguarded(h, d, name) ==
  IF name \in Keys(d)
  THEN Outcome(Restrict(h, Values(DictDel(d, name))), DictDel(d, name),
               "None", <<"structure_changed">>)
  ELSE Outcome(h, d, "KeyError", <<>>)

remove(h, d, name) ==
  IF name \in Keys(d)
  THEN Outcome(Restrict(h, Values(DictDel(d, name))), DictDel(d, name),
               "None", <<"structure_changed">>)
  ELSE Outcome(h, d, "None", <<>>)

\* faulty variant: the signal is emitted inside the deleting loop
clear_finished_emits_each(h, d) ==
  LET finished_keys == { d[i].key : i \in { j \in DOMAIN d : is_finished(h[d[j].ref]) } }
      kept == SelectSeq(d, LAMBDA e : e.key \notin finished_keys)
  IN IF finished_keys = {}
     THEN Outcome(h, d, "None", <<>>)
     ELSE Outcome(Restrict(h, Values(kept)), kept, "None",
                  [i \in 1..Cardinality(finished_keys) |-> "structure_changed"])

clear_finished(h, d) ==
  LET finished_keys == { d[i].key : i \in { j \in DOMAIN d : is_finished(h[d[j].ref]) } }
      kept == SelectSeq(d, LAMBDA e : e.key \notin finished_keys)
  IN IF finished_keys = {}
     THEN Outcome(h, d, "None", <<>>)
     ELSE Outcome(Restrict(h, Values(kept)), kept, "None", <<"structure_changed">>)

\* faulty variant: was_finished is not consulted
became_finished_any(before, after) == is_finished(after)

\* the test tick_all makes on each timer around its tick_wall call
became_finished(before, after) == ~is_finished(before) /\ is_finished(after)

\* faulty variant: any field that differs counts as a change of value
tick_all_any_field(h, d, now) ==
  LET after == [r \in DOMAIN h |->
                  IF r \in Values(d) THEN tick_wall(h[r], now) ELSE h[r]]
      any_change == \E r \in Values(d) : after[r] # h[r]
      just_finished == \E r \in Values(d) : became_finished(h[r], after[r])
  IN Outcome(after, d, "None",
             (IF any_change THEN <<"updated">> ELSE <<>>) \o
             (IF just_finished THEN <<"structure_changed">> ELSE <<>>))

\* faulty variant: the two signals are emitted in the other order
tick_all_structure_first(h, d, now) ==
  LET after == [r \in DOMAIN h |->
                  IF r \in Values(d) THEN tick_wall(h[r], now) ELSE h[r]]
      any_change == \E r \in Values(d) : after[r].remaining_sec # h[r].remaining_sec
      just_finished == \E r \in Values(d) : became_finished(h[r], after[r])
  IN Outcome(after, d, "None",
             (IF just_finished THEN <<"structure_changed">> ELSE <<>>) \o
             (IF any_change THEN <<"updated">> ELSE <<>>))

tick_all(h, d, now) ==
  LET after == [r \in DOMAIN h |->
                  IF r \in Values(d) THEN tick_wall(h[r], now) ELSE h[r]]
      any_change == \E r \in Values(d) : after[r].remaining_sec # h[r].remaining_sec
      just_finished == \E r \in Values(d) : became_finished(h[r], after[r])
  IN Outcome(after, d, "None",
             (IF any_change THEN <<"updated">> ELSE <<>>) \o
             (IF just_finished THEN <<"structure_changed">> ELSE <<>>))

all_items(d) == [i \in DOMAIN d |-> d[i].ref]

counts(h, d) ==
  LET active == Cardinality({ i \in DOMAIN d : ~is_finished(h[d[i].ref]) })
  IN <<active, Len(d) - active>>

\* ---------------------------------------------------------------- TimerWidget
\* faulty variant: the early return for a finished timer is missing
toggle_pause_unguarded(h, d, r) ==
  Outcome([h EXCEPT ![r].running = ~h[r].running], d, "None", <<"state_changed">>)

toggle_pause(h, d, r) ==
  IF is_finished(h[r])
  THEN Outcome(h, d, "None", <<>>)
  ELSE Outcome([h EXCEPT ![r].running = ~h[r].running], d, "None", <<"state_changed">>)

\* ---------------------------------------------------------------- snapshot
\* What the holder of the list all_items returned can do with it.  The list is
\* new; its elements are the objects the dict holds (list(self.items.values())).
\* ret is the list afterwards.

\* del snapshot[i]
snapshot_del(h, d, snap, i) ==
  Outcome(h, d, [j \in 1..(Len(snap) - 1) |-> IF j < i THEN snap[j] ELSE snap[j + 1]], <<>>)

\* snapshot.reverse(), a reordering like the items.sort of _rebuild_list
snapshot_reverse(h, d, snap) ==
  Outcome(h, d, [j \in DOMAIN snap |-> snap[Len(snap) + 1 - j]], <<>>)

\* snapshot[i].running = v, the assignment _toggle_pause makes through the
\* widget's model, an element of the list _rebuild_list got from all_items
snapshot_set_running(h, d, snap, i, v) ==
  Outcome([h EXCEPT ![snap[i]].running = v], d, snap, <<>>)

\* snapshot[i].age_group = v, the assignment of _on_details_changed
snapshot_set_age_group(h, d, snap, i, v) ==
  Outcome([h EXCEPT ![snap[i]].age_group = v], d, snap, <<>>)

\* ---------------------------------------------------------------- MainWindow
\* the characters of the model's names, in code point order
Alphabet == <<" ", "0", "1", "2", "3", "4", "5", "6", "7", "8", "9",
              "A", "T", "a", "e", "i", "m", "r", "t", "z">>

ord(c) == CHOOSE i \in DOMAIN Alphabet : Alphabet[i] = c

lower_char(c) == IF c = "A" THEN "a" ELSE IF c = "T" THEN "t" ELSE c

\* str.lower()
lower(s) == [i \in DOMAIN s |-> lower_char(s[i])]

\* s < t on str: lexicographic by code point, a proper prefix being smaller
RECURSIVE str_lt(_, _)
str_lt(s, t) ==
  IF t = <<>> THEN FALSE
  ELSE IF s = <<>> THEN TRUE
  ELSE IF ord(Head(s)) # ord(Head(t)) THEN ord(Head(s)) < ord(Head(t))
  ELSE str_lt(Tail(s), Tail(t))

\* faulty variant: the name is compared as it is written
sort_key_case_sensitive(st, group_active_top) ==
  IF group_active_top
  THEN <<is_finished(st), st.remaining_sec, st.name>>
  ELSE <<st.name>>

\* the key= lambda of the items.sort call _rebuild_list makes
sort_key(st, group_active_top) ==
  IF group_active_top
  THEN <<is_finished(st), st.remaining_sec, lower(st.name)>>
  ELSE <<lower(st.name)>>

\* a < b on the tuples sort_key returns (False < True on bool)
tuple_lt(a, b) ==
  IF Len(a) = 1 THEN str_lt(a[1], b[1])
  ELSE IF a[1] # b[1] THEN b[1]
  ELSE IF a[2] # b[2] THEN a[2] < b[2]
  ELSE str_lt(a[3], b[3])

\* list.sort is stable: an element goes behind every element placed before it
\* whose key is not larger
RECURSIVE insort(_, _, _, _)
insort(h, flag, sorted, r) ==
  IF sorted = <<>> THEN <<r>>
  ELSE IF tuple_lt(sort_key(h[r], flag), sort_key(h[Head(sorted)], flag))
  THEN <<r>> \o sorted
  ELSE <<Head(sorted)>> \o insort(h, flag, Tail(sorted), r)

RECURSIVE list_sort(_, _, _, _)
list_sort(h, flag, done, todo) ==
  IF todo = <<>> THEN done
  ELSE list_sort(h, flag, insort(h, flag, done, Head(todo)), Tail(todo))

\* the order in which _rebuild_list adds the timers to the list widget
rebuild_list(h, d, group_active_top) == list_sort(h, group_active_top, <<>>, all_items(d))

\* ---------------------------------------------------------------- history
\* owed, mon, fin and life record what has happened to a timer; no operation
\* reads them.
Idle == [stage |-> 0, r0 |-> 0, n1 |-> 0, n2 |-> 0]

\* stage 1: paused at remaining_sec = r0;  stage 2: ticked at n1 while paused;
\* stage 3: resumed after that tick;       stage 4: ticked at n2 after resuming
MonToggle(m, st) ==
  IF is_finished(st) THEN m
  ELSE IF st.running THEN [Idle EXCEPT !.stage = 1, !.r0 = st.remaining_sec]
  ELSE IF m.stage = 2 THEN [m EXCEPT !.stage = 3]
  ELSE Idle

MonTick(m, now) ==
  IF m.stage \in {1, 2} THEN [m EXCEPT !.stage = 2, !.n1 = now]
  ELSE IF m.stage = 3 THEN [m EXCEPT !.stage = 4, !.n2 = now]
  ELSE Idle

Unreported == [reported |-> 0, later |-> FALSE]

FinTick(f, before, after) ==
  [reported |-> f.reported + (IF became_finished(before, after) THEN 1 ELSE 0),
   later |-> f.later \/ is_finished(before)]

Born(now) == [created |-> now, ticked |-> now, toggled |-> FALSE]

HistKeep ==
  /\ owed' = [r \in DOMAIN heap' |-> IF r \in DOMAIN heap THEN owed[r] ELSE 0]
  /\ mon' = [r \in DOMAIN heap' |-> IF r \in DOMAIN heap THEN mon[r] ELSE Idle]
  /\ fin' = [r \in DOMAIN heap' |-> IF r \in DOMAIN heap THEN fin[r] ELSE Unreported]
  /\ UNCHANGED life

\* ---------------------------------------------------------------- behaviour
Init ==
  /\ heap = << >>
  /\ items = << >>
  /\ wall = 0
  /\ owed = << >>
  /\ mon = << >>
  /\ fin = << >>
  /\ life = << >>

Apply(out) ==
  /\ heap' = out.heap
  /\ items' = out.items
  /\ UNCHANGED wall

AddOp(forms) ==
  /\ Len(items) < MaxTimers
  /\ \E f \in forms, s \in Durations :
       Apply(add(heap, items, wall, f[1], s, f[2], f[3]))

RenameOp ==
  \E o \in Keys(items) \cup {Absent}, n \in NameInputs :
    Apply(rename(heap, items, o, n))

RemoveOp == \E n \in Keys(items) \cup {Absent} : Apply(remove(heap, items, n))

ClearFinishedOp == Apply(clear_finished(heap, items))

TickAllOp == Apply(tick_all(heap, items, wall))

TogglePauseOp(r) == Apply(toggle_pause(heap, items, r))

AdvanceOp(s) ==
  /\ wall + s <= MaxNow
  /\ wall' = wall + s
  /\ UNCHANGED <<heap, items>>

BackOp(s) ==
  /\ wall - s >= 0
  /\ wall' = wall - s
  /\ UNCHANGED <<heap, items>>

\* ---- the program, history not recorded
Add == AddOp(FormInputs) /\ UNCHANGED <<owed, mon, fin, life>>

Rename == RenameOp /\ UNCHANGED <<owed, mon, fin, life>>

Remove == RemoveOp /\ UNCHANGED <<owed, mon, fin, life>>

ClearFinished == ClearFinishedOp /\ UNCHANGED <<owed, mon, fin, life>>

TickAll == TickAllOp /\ UNCHANGED <<owed, mon, fin, life>>

TogglePause == \E r \in Values(items) : TogglePauseOp(r) /\ UNCHANGED <<owed, mon, fin, life>>

Advance == \E s \in Steps : AdvanceOp(s) /\ UNCHANGED <<owed, mon, fin, life>>

Back == \E s \in 1..Res : BackOp(s) /\ UNCHANGED <<owed, mon, fin, life>>

Next ==
  \/ Add
  \/ Rename
  \/ Remove
  \/ ClearFinished
  \/ TickAll
  \/ TogglePause
  \/ Advance

Spec == Init /\ [][Next]_vars

\* ---- the same program under a wall clock that may also be set back
NextBack ==
  \/ Add
  \/ Rename
  \/ Remove
  \/ ClearFinished
  \/ TickAll
  \/ TogglePause
  \/ Advance
  \/ Back

SpecBack == Init /\ [][NextBack]_vars

\* ---- the timing operations with their history recorded; every timer is
\* ---- created from the blank form, names playing no part in timing
AddH == AddOp({BlankForm}) /\ HistKeep

RemoveH == RemoveOp /\ HistKeep

ClearFinishedH == ClearFinishedOp /\ HistKeep

TickAllH ==
  /\ TickAllOp
  /\ owed' = [r \in DOMAIN heap |->
                IF heap'[r].last_wall_ts = wall THEN 0 ELSE owed[r]]
  /\ mon' = [r \in DOMAIN heap |-> MonTick(mon[r], wall)]
  /\ fin' = [r \in DOMAIN heap |-> FinTick(fin[r], heap[r], heap'[r])]
  /\ UNCHANGED life

TogglePauseH ==
  \E r \in Values(items) :
    /\ TogglePauseOp(r)
    /\ mon' = [mon EXCEPT ![r] = MonToggle(mon[r], heap[r])]
    /\ UNCHANGED <<owed, fin, life>>

AdvanceH ==
  \E s \in Steps :
    /\ AdvanceOp(s)
    /\ owed' = [r \in DOMAIN heap |-> owed[r] + (IF heap[r].running THEN s ELSE 0)]
    /\ UNCHANGED <<mon, fin, life>>

NextHist ==
  \/ AddH
  \/ RemoveH
  \/ ClearFinishedH
  \/ TickAllH
  \/ TogglePauseH
  \/ AdvanceH

SpecHist == Init /\ [][NextHist]_vars

\* ---- naming alone: timers of one second are added and removed, the clock
\* ---- standing still, in a collection of up to MaxNamed timers
AddNamed ==
  /\ Len(items) < MaxNamed
  /\ \E f \in FormInputs : Apply(add(heap, items, wall, f[1], 1, f[2], f[3]))
  /\ UNCHANGED <<owed, mon, fin, life>>

NextNames ==
  \/ AddNamed
  \/ Remove

SpecNames == Init /\ [][NextNames]_vars

\* ---- ordering alone: timers whose names differ in case or not at all are
\* ---- added at different instants and run down, none being paused or removed
AddCased ==
  /\ Len(items) < MaxNamed
  /\ \E n \in CasedNames, s \in Durations :
       Apply(add(heap, items, wall, n, s, "N/A", "Other"))
  /\ UNCHANGED <<owed, mon, fin, life>>

NextOrder ==
  \/ AddCased
  \/ TickAll
  \/ Advance

SpecOrder == Init /\ [][NextOrder]_vars

\* ---- timers from the blank form, ticked at any cadence, with the instants of
\* ---- their creation and of their latest tick recorded
AddL ==
  /\ AddOp({BlankForm})
  /\ life' = [r \in DOMAIN heap' |-> IF r \in DOMAIN heap THEN life[r] ELSE Born(wall)]
  /\ UNCHANGED <<owed, mon, fin>>

TickAllL ==
  /\ TickAllOp
  /\ life' = [r \in DOMAIN heap |-> [life[r] EXCEPT !.ticked = wall]]
  /\ UNCHANGED <<owed, mon, fin>>

TogglePauseL ==
  \E r \in Values(items) :
    /\ TogglePauseOp(r)
    /\ life' = [life EXCEPT ![r].toggled = life[r].toggled \/ ~is_finished(heap[r])]
    /\ UNCHANGED <<owed, mon, fin>>

AdvanceL == \E s \in Steps : AdvanceOp(s) /\ UNCHANGED <<owed, mon, fin, life>>

NextLife ==
  \/ AddL
  \/ TickAllL
  \/ TogglePauseL
  \/ AdvanceL

SpecLife == Init /\ [][NextLife]_vars

\* ---- the ticker at work: the 1 s QTimer keeps calling tick_all and the clock
\* ---- keeps moving, on to Horizon: far enough past MaxNow for the longest
\* ---- timer running at MaxNow, as a subtraction of e seconds uses up less than
\* ---- e + 1 seconds of clock, that is at most e * (2 * Res - 1) units.
Horizon == MaxNow + MaxDur * (2 * Res - 1)

AddV ==
  /\ AddOp({BlankForm})
  /\ fin' = [r \in DOMAIN heap' |-> IF r \in DOMAIN heap THEN fin[r] ELSE Unreported]
  /\ UNCHANGED <<owed, mon, life>>

RemoveV ==
  /\ RemoveOp
  /\ fin' = [r \in DOMAIN heap' |-> fin[r]]
  /\ UNCHANGED <<owed, mon, life>>

TickAllV ==
  /\ TickAllOp
  /\ fin' = [r \in DOMAIN heap |-> FinTick(fin[r], heap[r], heap'[r])]
  /\ UNCHANGED <<owed, mon, life>>

AdvanceV ==
  \E s \in Steps :
    /\ wall + s <= Horizon
    /\ wall' = wall + s
    /\ UNCHANGED <<heap, items, owed, mon, fin, life>>

NextLive ==
  \/ AddV
  \/ RemoveV
  \/ TickAllV
  \/ TogglePause
  \/ AdvanceV

SpecLive ==
  /\ Init
  /\ [][NextLive]_vars
  /\ WF_vars(TickAllV)
  /\ WF_vars(AdvanceV)

\* ================================================================ claims
Live == Values(items)

OldNames == Keys(items) \cup {Absent}

Entries(d) == { d[i] : i \in DOMAIN d }

\* C1: every timer of the collection has 0 <= remaining_sec <= initial_duration_sec
\* in every state any sequence of operations reaches.
C1_RemainingWithinDuration ==
  \A r \in Live :
    /\ 0 <= heap[r].remaining_sec
    /\ heap[r].remaining_sec <= heap[r].initial_duration_sec

\* a finished timer beside one that is partly elapsed
C1_Witness ==
  \E r, q \in Live :
    /\ heap[r].remaining_sec = 0
    /\ heap[q].remaining_sec > 0
    /\ heap[q].remaining_sec < heap[q].initial_duration_sec

\* C2: under a non-decreasing clock no step makes a timer's remaining_sec
\* negative or larger than it was.
C2_RemainingNeverIncreases ==
  [][\A r \in DOMAIN heap \cap DOMAIN heap' :
       /\ heap'[r].remaining_sec >= 0
       /\ heap'[r].remaining_sec <= heap[r].remaining_sec]_vars

\* a running timer a tick has partly taken down, due for a further subtraction
C2_Witness ==
  \E r \in Live :
    /\ heap[r].running
    /\ heap[r].remaining_sec > 0
    /\ heap[r].remaining_sec < heap[r].initial_duration_sec
    /\ heap[r].last_wall_ts > 0
    /\ wall >= heap[r].last_wall_ts + Res

\* C3: a second tick_all at the same now changes no field of any timer, and
\* no entry of the collection.
C3_TickTwiceIdempotent ==
  LET first == tick_all(heap, items, wall)
      second == tick_all(first.heap, first.items, wall)
  IN /\ second.heap = first.heap
     /\ second.items = first.items

\* the first of the two calls subtracts from a running timer and moves the
\* reference instant of a paused one
C3_Witness ==
  LET first == tick_all(heap, items, wall) IN
  \E r, q \in Live :
    /\ first.heap[r].remaining_sec < heap[r].remaining_sec
    /\ ~heap[q].running
    /\ first.heap[q].last_wall_ts # heap[q].last_wall_ts

\* C4: a tick subtracts no wall-clock time the timer spent paused: what one
\* step subtracts is covered by the time the timer has spent running since its
\* reference instant.
C4_PausedTimeNeverCharged ==
  [][\A r \in DOMAIN heap \cap DOMAIN heap' :
       heap'[r].remaining_sec < heap[r].remaining_sec =>
         (heap[r].remaining_sec - heap'[r].remaining_sec) * Res <= owed[r]]_vars

\* C5: after pause at r0, tick_all(n1) while paused, resume, tick_all(n2) with
\* n2 >= n1, remaining_sec is max(0, r0 - floor(n2 - n1)).
C5_ResumeChargesSinceLastPausedTick ==
  \A r \in Live :
    (mon[r].stage = 4 /\ mon[r].n2 >= mon[r].n1) =>
      heap[r].remaining_sec = Max(0, mon[r].r0 - ((mon[r].n2 - mon[r].n1) \div Res))

\* the scenario has run on a timer paused at least a second before n1, and the
\* last tick subtracted exactly one second
C5_Witness ==
  \E r \in Live :
    /\ mon[r].stage = 4
    /\ mon[r].n1 >= Res
    /\ mon[r].n2 - mon[r].n1 >= Res
    /\ heap[r].remaining_sec = mon[r].r0 - 1

\* C6: every name is non-empty, names and keys are pairwise distinct, and each
\* entry is stored under its timer's own name.
C6_NamesUniqueAndKeyed ==
  /\ \A i \in DOMAIN items :
       /\ items[i].key = heap[items[i].ref].name
       /\ heap[items[i].ref].name # <<>>
  /\ \A i, j \in DOMAIN items :
       i # j => /\ items[i].key # items[j].key
                /\ heap[items[i].ref].name # heap[items[j].ref].name
                /\ items[i].ref # items[j].ref

\* two timers, one of them renamed to "a" (it keeps the blank form's age group)
C6_Witness ==
  /\ Len(items) = 2
  /\ \E r \in Live : heap[r].name = <<"a">> /\ heap[r].age_group = "N/A"

\* C7: a successful rename changes the timer's name to the trimmed new name and
\* nothing else: its other fields, every other timer and the size are unchanged,
\* the old key is gone and the new key holds the same object.
C7_RenameSuccessFrame ==
  \A o \in OldNames, n \in NameInputs :
    LET out == rename(heap, items, o, n) IN
    out.ret = "True" =>
      LET r == items[DictGet(items, o)].ref IN
      /\ DOMAIN out.heap = DOMAIN heap
      /\ out.heap[r] = [heap[r] EXCEPT !.name = strip(n)]
      /\ \A q \in DOMAIN heap \ {r} : out.heap[q] = heap[q]
      /\ Len(out.items) = Len(items)
      /\ o \notin Keys(out.items)
      /\ [key |-> strip(n), ref |-> r] \in Entries(out.items)
      /\ Entries(out.items) \ {[key |-> strip(n), ref |-> r]}
           = Entries(items) \ {[key |-> o, ref |-> r]}

\* a rename can succeed on a paused, partly elapsed timer that has a neighbour
C7_Witness ==
  /\ Len(items) = 2
  /\ \E o \in Keys(items), n \in NameInputs :
       LET r == items[DictGet(items, o)].ref IN
       /\ rename(heap, items, o, n).ret = "True"
       /\ ~heap[r].running
       /\ heap[r].remaining_sec < heap[r].initial_duration_sec
       /\ heap[r].remaining_sec > 0

\* C8: rename returns False and leaves the whole state as it was when the
\* trimmed new name is empty, equals the old name, or is already a key.
C8_RenameRejected ==
  \A o \in OldNames, n \in NameInputs :
    LET out == rename(heap, items, o, n) IN
    (strip(n) = <<>> \/ strip(n) = o \/ strip(n) \in Keys(items)) =>
      /\ out.ret = "False"
      /\ out.heap = heap
      /\ out.items = items

\* all three rejections are possible in one state: blank, same name, taken name
C8_Witness ==
  /\ \E n \in NameInputs : strip(n) = <<>>
  /\ \E o \in Keys(items), n \in NameInputs : strip(n) = o /\ n # o
  /\ \E o \in Keys(items), n \in NameInputs : strip(n) \in Keys(items) \ {o}

\* C9: for every old and new name rename returns True or False without
\* raising, and leaves the state as it was unless it returns True.
C9_RenameNeverRaises ==
  \A o \in OldNames, n \in NameInputs :
    LET out == rename(heap, items, o, n) IN
    /\ out.ret \in {"True", "False"}
    /\ out.ret # "True" => (out.heap = heap /\ out.items = items)

\* C10: clear_finished leaves exactly the timers with remaining_sec > 0, in
\* their order, every field unchanged.
C10_ClearFinishedExact ==
  LET out == clear_finished(heap, items)
      unfinished == { r \in Live : heap[r].remaining_sec > 0 }
  IN /\ out.items = SelectSeq(items, LAMBDA e : e.ref \in unfinished)
     /\ DOMAIN out.heap = unfinished
     /\ \A r \in unfinished : out.heap[r] = heap[r]

\* a finished timer stored before an unfinished one
C10_Witness ==
  /\ Len(items) = 2
  /\ heap[items[1].ref].remaining_sec = 0
  /\ heap[items[2].ref].remaining_sec > 0

\* C11: remove(name) deletes the entry stored under name and nothing else when
\* name is a key; when it is not, remove raises nothing and leaves the state as
\* it was; a second remove(name) changes nothing the first one left.
C11_RemoveExactAndIdempotent ==
  \A n \in OldNames :
    LET out == remove(heap, items, n)
        again == remove(out.heap, out.items, n)
        gone == { i \in DOMAIN items : items[i].key = n }
    IN /\ out.ret = "None"
       /\ n \notin Keys(out.items)
       /\ Len(out.items) = Len(items) - Cardinality(gone)
       /\ Cardinality(gone) <= 1
       /\ \A i \in DOMAIN items \ gone :
            LET j == i - Cardinality({ k \in gone : k < i }) IN
            /\ out.items[j] = items[i]
            /\ out.heap[items[i].ref] = heap[items[i].ref]
       /\ DOMAIN out.heap = { items[i].ref : i \in DOMAIN items \ gone }
       /\ gone = {} => (out.heap = heap /\ out.items = items)
       /\ again.ret = "None"
       /\ again.heap = out.heap
       /\ again.items = out.items

\* the first of two timers can be removed, the second moving up, and an absent
\* name can be removed as well
C11_Witness ==
  /\ Len(items) = 2
  /\ Absent \notin Keys(items)
  /\ remove(heap, items, items[1].key).items = <<items[2]>>
  /\ heap[items[1].ref] # heap[items[2].ref]

Count(seq, x) == Cardinality({ i \in DOMAIN seq : seq[i] = x })

\* C12: a tick_all call emits updated exactly when some timer's remaining_sec
\* after the call differs from before it, and structure_changed exactly when
\* some timer unfinished before the call is finished after it; each at most
\* once, and nothing else.
C12_TickAllSignals ==
  LET out == tick_all(heap, items, wall)
      changed == \E r \in Live : out.heap[r].remaining_sec # heap[r].remaining_sec
      finished == \E r \in Live : heap[r].remaining_sec > 0 /\ out.heap[r].remaining_sec <= 0
  IN /\ Count(out.emitted, "updated") = (IF changed THEN 1 ELSE 0)
     /\ Count(out.emitted, "structure_changed") = (IF finished THEN 1 ELSE 0)
     /\ Len(out.emitted) = Count(out.emitted, "updated") + Count(out.emitted, "structure_changed")

\* one call finishes two timers at once: both signals, each once
C12_Witness ==
  LET out == tick_all(heap, items, wall) IN
  /\ Len(items) = 2
  /\ \A r \in Live : heap[r].remaining_sec > 0 /\ out.heap[r].remaining_sec = 0
  /\ Len(out.emitted) = 2

Instants == 0..MaxNow

\* what one call of tick_all (at any instant), _toggle_pause, rename or add can
\* leave behind when made in the current state
AfterKeepingCall ==
  { tick_all(heap, items, now) : now \in Instants }
    \cup { toggle_pause(heap, items, r) : r \in Live }
    \cup { rename(heap, items, o, n) : o \in OldNames, n \in NameInputs }
    \cup (IF Len(items) < MaxTimers
          THEN { add(heap, items, wall, f[1], s, f[2], f[3]) : f \in FormInputs, s \in Durations }
          ELSE {})

\* C13: a timer whose remaining_sec has reached 0 is still in the collection,
\* with remaining_sec = 0, after any tick_all, toggle, rename or add; only
\* remove and clear_finished take it away.
C13_FinishedIsTerminal ==
  \A r \in Live :
    heap[r].remaining_sec <= 0 =>
      \A out \in AfterKeepingCall :
        /\ r \in Values(out.items)
        /\ out.heap[r].remaining_sec = 0
        /\ out.heap[r].remaining_sec = heap[r].remaining_sec

\* a finished timer whose running flag is still set, more than a second after
\* its reference instant, in a collection that has room for an add
C13_Witness ==
  /\ Len(items) = 1
  /\ \E r \in Live :
       /\ heap[r].remaining_sec = 0
       /\ heap[r].running
       /\ wall >= heap[r].last_wall_ts + Res

\* C14: over a timer's lifetime exactly one tick_all call finds it just
\* finished, the one in which its remaining_sec reaches 0; the calls made
\* after that one do not.
C14_JustFinishedOnce ==
  \A r \in Live :
    /\ fin[r].reported <= 1
    /\ fin[r].reported = (IF heap[r].remaining_sec <= 0 THEN 1 ELSE 0)
    /\ fin[r].later => fin[r].reported = 1

\* two timers that finished in different calls: the first was ticked again,
\* already finished, by the call (or a call before the one) that finished the
\* second
C14_Witness ==
  /\ Len(items) = 2
  /\ \A r \in Live : fin[r].reported = 1
  /\ \E r, q \in Live : fin[r].later /\ ~fin[q].later

\* C15: the toggle flips running, and nothing else, on a timer with
\* remaining_sec > 0; on a timer with remaining_sec <= 0 it changes no field of
\* any timer and emits no signal.
C15_ToggleFlipsOrNoOp ==
  \A r \in Live :
    LET out == toggle_pause(heap, items, r) IN
    /\ out.items = items
    /\ DOMAIN out.heap = DOMAIN heap
    /\ \A q \in DOMAIN heap \ {r} : out.heap[q] = heap[q]
    /\ heap[r].remaining_sec > 0 =>
         out.heap[r] = [heap[r] EXCEPT !.running = ~heap[r].running]
    /\ heap[r].remaining_sec <= 0 =>
         /\ out.heap[r] = heap[r]
         /\ out.emitted = <<>>

\* a finished timer beside a paused one that a toggle resumes
C15_Witness ==
  \E r, q \in Live :
    /\ heap[r].remaining_sec = 0
    /\ heap[q].remaining_sec > 0
    /\ ~heap[q].running
    /\ toggle_pause(heap, items, q).heap[q].running

\* the band (safe = green, warning = orange, critical = red) of a timer with
\* remaining_sec = r, cut at thirds of d
BandOf(r, d) ==
  IF r <= 0 THEN "muted"
  ELSE IF r > (2 * d) \div 3 THEN "green"
  ELSE IF r > d \div 3 THEN "orange"
  ELSE "red"

\* C16: the colour of every timer is its band relative to its own
\* initial_duration_sec: above two thirds of it safe, above one third warning,
\* otherwise critical, and muted when finished.
C16_ColourRelativeToOwnDuration ==
  \A r \in Live :
    color_for_remaining(heap[r]) = BandOf(heap[r].remaining_sec, heap[r].initial_duration_sec)

\* the k-th name of the probe order: base, "base 2", "base 3", ...
ProbeName(b, k) == IF k = 1 THEN b ELSE b \o <<" ">> \o str(k)

Based(base) == IF strip(base) = <<>> THEN Placeholder ELSE strip(base)

\* C17: unique_name(base) is the first name of the probe order base, "base 2",
\* "base 3", ... (base trimmed, "Timer" when blank) that is not a key, found
\* within one probe more than there are keys; add("Timer") twice from the empty
\* collection names the timers "Timer" and "Timer 2".
C17_FirstFreeName ==
  /\ \A base \in NameInputs :
       LET n == unique_name(items, base) IN
       \E k \in 1..(Len(items) + 1) :
         /\ n = ProbeName(Based(base), k)
         /\ n \notin Keys(items)
         /\ \A j \in 1..(k - 1) : ProbeName(Based(base), j) \in Keys(items)
  /\ LET one == add(<< >>, << >>, wall, Placeholder, 1, "N/A", "Other")
         two == add(one.heap, one.items, wall, Placeholder, 1, "N/A", "Other")
     IN /\ one.items = <<[key |-> Placeholder, ref |-> 1]>>
        /\ two.items = <<[key |-> Placeholder, ref |-> 1],
                         [key |-> Placeholder \o <<" ", "2">>, ref |-> 2]>>

\* "Timer" and "Timer 3" are taken and "Timer 2", removed since, is free again:
\* the probe has gone as far as "Timer 3" and now stops at "Timer 2"
C17_Witness ==
  /\ Keys(items) = { Placeholder, Placeholder \o <<" ", "3">> }
  /\ unique_name(items, <<" ">>) = Placeholder \o <<" ", "2">>

\* C18: for every base name and duration add raises nothing, appends exactly
\* one entry, under the generated unique name, whose timer is running with
\* remaining_sec = initial_duration_sec = duration and last_wall_ts = now,
\* leaves every existing timer and entry as it was, and emits
\* structure_changed exactly once.
C18_AddAlwaysAppendsOne ==
  \A base \in NameInputs, s \in Durations :
    LET out == add(heap, items, wall, base, s, "N/A", "Other")
        n == unique_name(items, base)
    IN /\ out.ret = "None"
       /\ Len(out.items) = Len(items) + 1
       /\ SubSeq(out.items, 1, Len(items)) = items
       /\ out.items[Len(items) + 1].key = n
       /\ n \notin Keys(items)
       /\ LET r == out.items[Len(items) + 1].ref IN
          /\ r \notin DOMAIN heap
          /\ DOMAIN out.heap = DOMAIN heap \cup {r}
          /\ out.heap[r] = [ name |-> n,
                             initial_duration_sec |-> s,
                             remaining_sec |-> s,
                             running |-> TRUE,
                             last_wall_ts |-> wall,
                             age_group |-> "N/A",
                             gender |-> "Other" ]
       /\ \A q \in DOMAIN heap : out.heap[q] = heap[q]
       /\ out.emitted = <<"structure_changed">>

\* both the blank base and the base "a" are taken, by timers no longer in the
\* state add would create them in, and the clock has moved
C18_Witness ==
  /\ Keys(items) = { Placeholder, <<"a">> }
  /\ \E r \in Live : ~heap[r].running
  /\ \E r \in Live : heap[r].remaining_sec = 0
  /\ wall > 0

\* every outcome of one mutation of the list all_items has just returned
SnapshotMutations ==
  LET snap == all_items(items) IN
  { snapshot_del(heap, items, snap, i) : i \in DOMAIN snap }
    \cup { snapshot_reverse(heap, items, snap) }
    \cup { snapshot_set_running(heap, items, snap, i, v) : i \in DOMAIN snap, v \in BOOLEAN }
    \cup { snapshot_set_age_group(heap, items, snap, i, v) : i \in DOMAIN snap, v \in {"N/A", "21-30"} }

\* C19: no mutation of the list all_items returned, of the list itself or of a
\* field of a timer in it, changes the entries of the collection or a field of
\* one of its timers.
C19_SnapshotIsReadOnlyCopy ==
  \A out \in SnapshotMutations :
    /\ out.items = items
    /\ DOMAIN out.heap = DOMAIN heap
    /\ \A r \in Live : out.heap[r] = heap[r]

Fin01(st) == IF st.remaining_sec <= 0 THEN 1 ELSE 0

\* st1 comes strictly before st2 by the keys of the ordering contract
Before(st1, st2, flag) ==
  LET byName == str_lt(lower(st1.name), lower(st2.name)) IN
  IF flag
  THEN \/ Fin01(st1) < Fin01(st2)
       \/ Fin01(st1) = Fin01(st2) /\ st1.remaining_sec < st2.remaining_sec
       \/ Fin01(st1) = Fin01(st2) /\ st1.remaining_sec = st2.remaining_sec /\ byName
  ELSE byName

PositionIn(seq, x) == CHOOSE i \in DOMAIN seq : seq[i] = x

\* p lists every timer once, ascending by the keys, timers equal on all keys in
\* their insertion order
OrderedAsContract(p, flag) ==
  /\ Len(p) = Len(items)
  /\ { p[i] : i \in DOMAIN p } = Live
  /\ \A i, j \in DOMAIN p :
       i < j =>
         /\ ~Before(heap[p[j]], heap[p[i]], flag)
         /\ ~Before(heap[p[i]], heap[p[j]], flag) =>
              PositionIn(all_items(items), p[i]) < PositionIn(all_items(items), p[j])

\* C20: for either value of the flag the presentation order is the one
\* sequence of the collection's timers that ascends by (finished as 0/1,
\* remaining_sec, lower-cased name), or by lower-cased name alone when the flag
\* is off, with timers equal on all keys in insertion order.
C20_PresentationOrder ==
  \A flag \in BOOLEAN :
    LET shown == rebuild_list(heap, items, flag) IN
    /\ OrderedAsContract(shown, flag)
    /\ \A p \in [1..Len(items) -> Live] :
         OrderedAsContract(p, flag) => p = shown

\* three timers, two of them equal in lower case and stored "a" before "A",
\* which the two flags order differently and neither in insertion order
C20_Witness ==
  /\ Len(items) = 3
  /\ \E i, j \in DOMAIN items :
       i < j /\ items[i].key = <<"a">> /\ items[j].key = <<"A">>
  /\ \E r \in Live : heap[r].remaining_sec = 0
  /\ rebuild_list(heap, items, TRUE) # rebuild_list(heap, items, FALSE)
  /\ rebuild_list(heap, items, TRUE) # all_items(items)
  /\ rebuild_list(heap, items, FALSE) # all_items(items)

\* what a deleting call must emit, given how many entries it deleted
OnceIfDeleted(out) ==
  out.emitted = (IF Len(out.items) < Len(items) THEN <<"structure_changed">> ELSE <<>>)

\* C21: remove and clear_finished emit structure_changed exactly once when the
\* call deleted at least one timer, however many, and nothing when it deleted
\* none.
C21_DeletionSignalsOnce ==
  /\ \A n \in OldNames : OnceIfDeleted(remove(heap, items, n))
  /\ OnceIfDeleted(clear_finished(heap, items))

\* two finished timers, which one clear_finished call deletes together
C21_Witness ==
  /\ Len(items) = 2
  /\ \A r \in Live : heap[r].remaining_sec = 0
  /\ Len(clear_finished(heap, items).items) = 0

\* floor of a difference of instants, in seconds
FloorSec(d) == d \div Res

\* C22: a tick_all at an instant less than a second after a running timer's
\* last_wall_ts, or before it, raises nothing and leaves the timer as it was;
\* a tick_all after that, at least a second after the same last_wall_ts,
\* subtracts the whole seconds since that last_wall_ts (down to 0) and moves
\* last_wall_ts there.
C22_StalledTickKeepsReference ==
  \A r \in Live :
    heap[r].running =>
      \A now \in Instants :
        FloorSec(now - heap[r].last_wall_ts) <= 0 =>
          LET first == tick_all(heap, items, now) IN
          /\ first.ret = "None"
          /\ first.heap[r] = heap[r]
          /\ \A later \in Instants :
               later >= heap[r].last_wall_ts + Res =>
                 LET second == tick_all(first.heap, first.items, later) IN
                 /\ second.ret = "None"
                 /\ second.heap[r].remaining_sec =
                      Max(0, heap[r].remaining_sec - FloorSec(later - heap[r].last_wall_ts))
                 /\ second.heap[r].last_wall_ts = later

\* the clock has been set back behind the last_wall_ts of a running, partly
\* elapsed timer that two more seconds would still not finish
C22_Witness ==
  \E r \in Live :
    /\ heap[r].running
    /\ wall < heap[r].last_wall_ts
    /\ heap[r].remaining_sec < heap[r].initial_duration_sec
    /\ heap[r].remaining_sec > 0
    /\ heap[r].last_wall_ts + Res <= MaxNow

\* C23: for a timer never paused and not finished, what the tick_all calls so
\* far have subtracted differs by less than one second from the time between
\* its creation and the latest of those calls.
C23_NoTimeLostToRounding ==
  \A r \in Live :
    (~life[r].toggled /\ heap[r].remaining_sec > 0) =>
      LET subtracted == (heap[r].initial_duration_sec - heap[r].remaining_sec) * Res
          elapsed == life[r].ticked - life[r].created
      IN /\ subtracted - elapsed < Res
         /\ elapsed - subtracted < Res

\* what one call of tick_all (at any instant), rename, remove, clear_finished
\* or add can leave behind when made in the current state
AfterUntoggledCall ==
  { tick_all(heap, items, now) : now \in Instants }
    \cup { rename(heap, items, o, n) : o \in OldNames, n \in NameInputs }
    \cup { remove(heap, items, n) : n \in OldNames }
    \cup { clear_finished(heap, items) }
    \cup { add(heap, items, wall, f[1], s, f[2], f[3]) : f \in FormInputs, s \in Durations }

\* C24: tick_all, rename, remove, clear_finished and add leave the running flag
\* of every timer that exists before and after the call as it was; a timer
\* brought to 0 keeps its flag, a paused one is never set running.
C24_RunningOnlyToggled ==
  \A out \in AfterUntoggledCall :
    \A r \in DOMAIN heap \cap DOMAIN out.heap :
      out.heap[r].running = heap[r].running

\* a paused timer beside a running one that a tick_all now brings to 0
C24_Witness ==
  \E r, q \in Live :
    /\ ~heap[r].running
    /\ heap[r].remaining_sec > 0
    /\ heap[q].running
    /\ heap[q].remaining_sec > 0
    /\ tick_all(heap, items, wall).heap[q].remaining_sec = 0

\* C25: a tick_all call that emits structure_changed has emitted updated
\* before it, and nothing else: structure_changed never comes alone or first.
C25_UpdatedBeforeStructure ==
  \A now \in Instants :
    LET out == tick_all(heap, items, now) IN
    (\E i \in DOMAIN out.emitted : out.emitted[i] = "structure_changed") =>
      out.emitted = <<"updated", "structure_changed">>

\* a tick_all now finishes one timer while the other, paused, keeps its
\* remaining_sec
C25_Witness ==
  LET out == tick_all(heap, items, wall) IN
  /\ \E i \in DOMAIN out.emitted : out.emitted[i] = "structure_changed"
  /\ \E r \in Live : ~heap[r].running /\ heap[r].remaining_sec > 0
  /\ \E q \in Live : heap[q].remaining_sec = 1 /\ out.heap[q].remaining_sec = 0

\* C26: under a ticker that keeps calling tick_all and a clock that keeps
\* moving, a timer that is running (at an instant that leaves the clock of the
\* model room to move on) is eventually finished, with remaining_sec = 0 and
\* reported just finished by a tick_all call (the call that emits
\* structure_changed for it), unless it is paused or removed first.
C26_RunningTimerFinishes ==
  \A r \in 1..MaxTimers :
    (r \in Live /\ heap[r].running /\ heap[r].remaining_sec > 0 /\ wall <= MaxNow)
      ~> \/ r \notin Live
         \/ ~heap[r].running
         \/ heap[r].remaining_sec = 0 /\ fin[r].reported = 1

\* a timer of the longest duration has run down and been reported after the
\* clock has moved well past MaxNow
C26_Witness ==
  \E r \in Live :
    /\ heap[r].initial_duration_sec = MaxDur
    /\ heap[r].remaining_sec = 0
    /\ heap[r].last_wall_ts >= MaxNow + MaxDur * Res
    /\ fin[r].reported = 1

====
